---- MODULE Spec2Model ----
(***************************************************************************)
(* ObsidianPostSync (sync_ob_posts.py): full sync of the post tree into    *)
(* the content directory, with the rewriting of image references.          *)
(*                                                                         *)
(* Representation of strings.                                              *)
(*   A file name is the sequence of its dot-separated parts:               *)
(*   "logo.png" is <<"logo","png">>, "weird.name" is <<"weird","name">>,   *)
(*   "logo" is <<"logo">>, "foo." is <<"foo","">>.                         *)
(*   A path written in a document is [scheme, dirs, name]: the text        *)
(*   scheme \o dirs[1] \o "/" \o ... \o "/" \o name.                       *)
(*   A file on disk is [dir, name], dir being the sequence of directory    *)
(*   names from the file system root.                                      *)
(*   The size parameter of an embed is the sequence of its characters.     *)
(*   A document text is the sequence of its items: embed references        *)
(*   ![[token|param]], standard references ![alt](path), image tags        *)
(*   <img src="image/name" width= height=>, and other text.                *)
(***************************************************************************)
EXTENDS Integers, Sequences, FiniteSets, TLC

VARIABLES fs, walk, srcText, text, pc, cur, content, original_content, pos,
          processed, lookups, copies, again, stamp, first

vars == <<fs, walk, srcText, text, pc, cur, content, original_content, pos,
          processed, lookups, copies, again, stamp, first>>

(***************************************************************************)
(* Directories (ObsidianPostSync.__init__)                                 *)
(***************************************************************************)
source_dir == <<"01-Post">>

target_dir == <<"content">>

attachment_dir == <<"attachment">>

image_dir == target_dir \o <<"image">>

\* The directories of the attachment tree, the root included.
AttDirs ==
  { attachment_dir,
    attachment_dir \o <<"assets">>,
    attachment_dir \o <<"assets", "sub">>,
    attachment_dir \o <<"other">> }

IsPrefix(s, t) == Len(s) <= Len(t) /\ SubSeq(t, 1, Len(s)) = s

\* d lies in the subtree of directory a (a itself included).
Under(d, a) == IsPrefix(a, d)

(***************************************************************************)
(* pathlib: Path.name, Path.suffix, Path.stem on names                     *)
(***************************************************************************)
\* Path(name).suffix != "" : the last dot is neither the first nor the last
\* character of the name.
HasSuffix(name) ==
  /\ Len(name) >= 2
  /\ name[Len(name)] # ""
  /\ ~(Len(name) = 2 /\ name[1] = "")

\* Path(token).name : the final component of a path text.
PathName(p) == p.name

\* name.replace(".", "") : the parts joined without their dots.
RECURSIVE NoDots(_)
NoDots(name) ==
  IF name = <<>> THEN "" ELSE Head(name) \o NoDots(Tail(name))

\* f"{stem}_{idx}{ext}" with stem, ext = dst.stem, dst.suffix
WithIndex(name, idx) ==
  LET n == Len(name)
      k == IF HasSuffix(name) THEN n - 1 ELSE n
  IN  [name EXCEPT ![k] = name[k] \o "_" \o ToString(idx)]

(***************************************************************************)
(* The file system                                                         *)
(***************************************************************************)
File(dir, name) == [dir |-> dir, name |-> name]

\* The value of "no file" (None).
NoFile == File(<<>>, <<>>)

IsFile(f, p) == p \in DOMAIN f

\* A name that names a directory of the attachment tree inside dir.
IsAttDir(dir, name) == Len(name) = 1 /\ (dir \o <<name[1]>>) \in AttDirs

\* Path.exists() of dir / name inside the attachment tree: a file or a directory.
AttExists(f, dir, name) == IsFile(f, File(dir, name)) \/ IsAttDir(dir, name)

\* The names present in the output image directory.
ImageNames(f) == { p.name : p \in { q \in DOMAIN f : q.dir = image_dir } }

(***************************************************************************)
(* _locate_image_by_token                                                  *)
(***************************************************************************)
\* exts, each without its leading dot (a name keeps its parts undotted).
exts == <<"png", "jpg", "jpeg", "gif", "svg", "webp">>

\* The candidate names, in the order they are tried.
Candidates(token) ==
  LET name    == PathName(token)
      has_ext == HasSuffix(name)
      base    == NoDots(name)
  IN  IF has_ext
        THEN <<name>>
        ELSE <<name>>
               \o [i \in 1..Len(exts) |-> Append(name, exts[i])]
               \o [i \in 1..Len(exts) |-> <<base, exts[i]>>]

\* The valid traversal orders of the attachment tree: a directory is yielded
\* before its subdirectories and a subtree is walked without interruption;
\* the order of sibling directories is the file system's.
Walks ==
  { w \in [1..Cardinality(AttDirs) -> AttDirs] :
      /\ \A i, j \in DOMAIN w : i # j => w[i] # w[j]
      /\ \A i, j \in DOMAIN w : (Under(w[j], w[i]) /\ w[i] # w[j]) => i < j
      /\ \A i, k, j \in DOMAIN w :
           (i < k /\ k < j /\ Under(w[j], w[i])) => Under(w[k], w[i]) }

\* next(attachment_dir.rglob(cand)) : the first entry named cand in the walk.
Rglob(f, w, cand) ==
  LET hits == { i \in DOMAIN w : AttExists(f, w[i], cand) }
  IN  IF hits = {}
        THEN NoFile
        ELSE File(w[CHOOSE i \in hits : \A j \in hits : i <= j], cand)

\* A locator that looks for every candidate in the attachment root before it
\* searches the subtree for any.
LocateRootFirst(f, w, candidates) ==
  LET inRoot == { i \in DOMAIN candidates :
                    AttExists(f, attachment_dir, candidates[i]) }
      below  == { i \in DOMAIN candidates : Rglob(f, w, candidates[i]) # NoFile }
  IN  IF inRoot # {}
        THEN File(attachment_dir,
                  candidates[CHOOSE i \in inRoot : \A j \in inRoot : i <= j])
      ELSE IF below # {}
        THEN Rglob(f, w, candidates[CHOOSE i \in below : \A j \in below : i <= j])
      ELSE NoFile

\* for cand in candidates: ...
RECURSIVE LocateIn(_, _, _)
LocateIn(f, w, candidates) ==
  IF candidates = <<>>
    THEN NoFile
    ELSE LET cand == Head(candidates)
         IN  IF AttExists(f, attachment_dir, cand)
               THEN File(attachment_dir, cand)
               ELSE IF Rglob(f, w, cand) # NoFile
                      THEN Rglob(f, w, cand)
                      ELSE LocateIn(f, w, Tail(candidates))

locate_image_by_token(f, w, token) == LocateIn(f, w, Candidates(token))

(***************************************************************************)
(* _copy_image_to_image_dir                                                *)
(***************************************************************************)
\* A copy that takes the name of the source whatever the directory holds.
CopyNameOverwriting(images, name) == name

\* The name the copy gets in an image directory holding the names images.
CopyName(images, name) ==
  IF name \notin images
    THEN name
    ELSE WithIndex(name,
           CHOOSE idx \in 1..(Cardinality(images) + 1) :
             /\ WithIndex(name, idx) \notin images
             /\ \A j \in 1..(idx - 1) : WithIndex(name, j) \in images)

\* The returned path.
CopyDst(f, src) == File(image_dir, CopyName(ImageNames(f), src.name))

\* A move in place of the copy: the source is gone afterwards.
move_image_to_image_dir(f, src) ==
  (CopyDst(f, src) :> f[src]) @@ [p \in DOMAIN f \ {src} |-> f[p]]

\* shutil.copy2(src, dst): the file system afterwards.
copy_image_to_image_dir(f, src) == (CopyDst(f, src) :> f[src]) @@ f

\* shutil.copy2 raises on a source that is no regular file (IsADirectoryError).
Copyable(f, src) == IsFile(f, src)

(***************************************************************************)
(* Document items                                                          *)
(***************************************************************************)
PathText(scheme, dirs, name) == [scheme |-> scheme, dirs |-> dirs, name |-> name]

Bare(name) == PathText("", <<>>, name)

\* ![[token]] and ![[token|param]]: param is group 2 of the pattern, the pipe
\* included, and <<>> when the group did not take part in the match.
Embed(token, param) ==
  [kind |-> "embed", ref |-> token, param |-> param, w |-> <<>>, h |-> <<>>]

\* ![alt](path)
Md(path) ==
  [kind |-> "md", ref |-> path, param |-> <<>>, w |-> <<>>, h |-> <<>>]

\* <img src="image/name" width="w" height="h">, the attributes absent when <<>>
Img(name, w, h) ==
  [kind |-> "img", ref |-> PathText("", <<"image">>, name), param |-> <<>>,
   w |-> w, h |-> h]

\* Text outside any reference.
Plain(name) ==
  [kind |-> "text", ref |-> Bare(name), param |-> <<>>, w |-> <<>>, h |-> <<>>]

(***************************************************************************)
(* repl_obsidian: the size parameter                                       *)
(***************************************************************************)
Digits == {"0", "1", "2", "3", "4", "5", "6", "7", "8", "9"}

\* param.strip("|")
RECURSIVE StripPipes(_)
StripPipes(s) ==
  IF s = <<>> THEN s
  ELSE IF Head(s) = "|" THEN StripPipes(Tail(s))
  ELSE IF s[Len(s)] = "|" THEN StripPipes(SubSeq(s, 1, Len(s) - 1))
  ELSE s

IsDigits(s) == Len(s) >= 1 /\ \A i \in DOMAIN s : s[i] \in Digits

\* The positions of the "x" at which re.match(r"(\d+)x(\d+)$", dims) succeeds.
DimsAt(dims) ==
  { i \in DOMAIN dims :
      /\ dims[i] = "x"
      /\ IsDigits(SubSeq(dims, 1, i - 1))
      /\ IsDigits(SubSeq(dims, i + 1, Len(dims))) }

\* The tag repl_obsidian returns for a copy named name.
EmbedTag(name, param) ==
  LET dims == StripPipes(param)
      m    == DimsAt(dims)
  IN  IF param # <<>> /\ m # {}
        THEN LET i == CHOOSE i \in m : TRUE
             IN  Img(name, SubSeq(dims, 1, i - 1), SubSeq(dims, i + 1, Len(dims)))
        ELSE Img(name, <<>>, <<>>)

(***************************************************************************)
(* replace_md_img: the path of a standard reference                        *)
(***************************************************************************)
\* raw_path.startswith("http://") or ... "https://" or ... "data:"
IsExternal(raw_path) == raw_path.scheme \in {"http://", "https://", "data:"}

\* A rewriter without the guard for paths that are already image/ paths.
IsImagePathNever(raw_path) == FALSE

\* raw_path.startswith("image/")
IsImagePath(raw_path) ==
  raw_path.scheme = "" /\ raw_path.dirs # <<>> /\ raw_path.dirs[1] = "image"

\* Path.resolve(): "." dropped, ".." taking the parent.
RECURSIVE Resolve(_, _)
Resolve(base, dirs) ==
  IF dirs = <<>> THEN base
  ELSE IF Head(dirs) = "." THEN Resolve(base, Tail(dirs))
  ELSE IF Head(dirs) = ".."
    THEN Resolve(IF base = <<>> THEN base ELSE SubSeq(base, 1, Len(base) - 1),
                 Tail(dirs))
  ELSE Resolve(Append(base, Head(dirs)), Tail(dirs))

(***************************************************************************)
(* The documents                                                           *)
(***************************************************************************)
\* a.md lies in the root of the post tree, b.md in its subdirectory posts.
Docs == {"a", "b"}

DocDir(d) == IF d = "a" THEN <<>> ELSE <<"posts">>

\* md_path.parent
Parent(d) == target_dir \o DocDir(d)

\* (md_path.parent / raw_path).resolve()
Candidate(d, raw_path) ==
  File(Resolve(Parent(d), raw_path.dirs), PathName(raw_path))

\* A rewriter that asks the locator first and looks beside the document last.
MdSourceLocatorFirst(f, w, d, raw_path) ==
  IF locate_image_by_token(f, w, Bare(PathName(raw_path))) # NoFile
    THEN locate_image_by_token(f, w, Bare(PathName(raw_path)))
  ELSE IF IsFile(f, Candidate(d, raw_path))
    THEN Candidate(d, raw_path)
  ELSE NoFile

\* The source of a standard reference of document d: the file beside the
\* document, else what the locator finds for the final component.
MdSource(f, w, d, raw_path) ==
  IF IsFile(f, Candidate(d, raw_path))
    THEN Candidate(d, raw_path)
    ELSE locate_image_by_token(f, w, Bare(PathName(raw_path)))

(***************************************************************************)
(* re.sub: the position of the next match                                  *)
(***************************************************************************)
\* The first item of the kind at or after from, 0 when there is none.
NextMatch(c, kind, from) ==
  LET m == { j \in from..Len(c) : c[j].kind = kind }
  IN  IF m = {} THEN 0 ELSE CHOOSE j \in m : \A k \in m : j <= k

\* Where _process_single_markdown goes on after the match before from of the
\* pass kind: the next match of the pass, else the first match of the
\* second pass, else the write-back.
Scan(c, kind, from) ==
  IF NextMatch(c, kind, from) # 0
    THEN [pc |-> kind, pos |-> NextMatch(c, kind, from)]
  ELSE IF kind = "embed" /\ NextMatch(c, "md", 1) # 0
    THEN [pc |-> "md", pos |-> NextMatch(c, "md", 1)]
  ELSE [pc |-> "write", pos |-> 0]

(***************************************************************************)
(* The inputs: the attachment tree, the post tree, the document texts      *)
(***************************************************************************)
\* The most references the documents of the post tree hold together.
MaxRefs == 2

logo_jpg == <<"logo", "jpg">>

logo_png == <<"logo", "png">>

\* The attachments a tree may hold besides weirdname.png.
AttFiles ==
  { File(attachment_dir, logo_jpg),
    File(attachment_dir \o <<"assets", "sub">>, logo_png),
    File(attachment_dir \o <<"other">>, logo_png) }

WeirdFile == File(attachment_dir, <<"weirdname", "png">>)

\* The image that lies beside a.md in the post tree.
PostFile == File(source_dir, logo_jpg)

Items ==
  { Embed(Bare(<<"logo">>), <<>>),
    Embed(Bare(<<"logo">>), <<"|", "3", "x", "2">>),
    Embed(Bare(<<"logo">>), <<"|", "3", "x", "2", "|">>),
    Embed(Bare(<<"logo">>), <<"|", "b", "i", "g">>),
    Embed(Bare(<<"weird", "name">>), <<>>),
    Embed(Bare(<<"assets">>), <<>>),
    Md(PathText("", <<".">>, logo_jpg)),
    Md(PathText("", <<".", "image">>, logo_jpg)),
    Md(PathText("", <<"image">>, logo_jpg)),
    Md(PathText("http://", <<"example.com">>, logo_jpg)),
    Md(PathText("https://", <<"example.com">>, logo_jpg)),
    Md(PathText("data:", <<>>, logo_jpg)),
    Plain(<<"logo">>) }

\* The texts of at most n items.
Texts(n) == UNION { [1..k -> Items] : k \in 0..n }

\* The empty function: no document in the target tree.
NoDocs == [d \in {} |-> <<>>]

\* No pass has returned yet.
NoResult == [images |-> {}, text |-> NoDocs, passes |-> 0]

\* A file system holding the files of the set, each with its own content.
Disk(files) == [p \in files |-> p]

Init ==
  /\ \E att \in SUBSET AttFiles : fs = Disk(att \cup {WeirdFile, PostFile})
  /\ walk \in Walks
  /\ \E na \in 0..MaxRefs :
       \E ta \in Texts(na) :
         \E tb \in Texts(MaxRefs - Len(ta)) :
           srcText = [d \in Docs |-> IF d = "a" THEN ta ELSE tb]
  /\ text = NoDocs
  /\ pc = "idle"
  /\ cur = "none"
  /\ content = <<>>
  /\ original_content = <<>>
  /\ pos = 0
  /\ processed = {}
  /\ lookups = <<>>
  /\ copies = <<>>
  /\ again = FALSE
  /\ stamp = [d \in Docs |-> -1]
  /\ first = NoResult

(***************************************************************************)
(* sync                                                                    *)
(***************************************************************************)
\* A clearing that leaves the files of the image directory in place.
clear_target_keeping_images ==
  /\ pc \in {"idle", "done", "failed"}
  /\ fs' = [p \in { q \in DOMAIN fs :
                      ~Under(q.dir, target_dir) \/ q.dir = image_dir } |-> fs[p]]
  /\ text' = NoDocs
  /\ pc' = "cleared"
  /\ cur' = "none"
  /\ content' = <<>>
  /\ original_content' = <<>>
  /\ pos' = 0
  /\ processed' = {}
  /\ lookups' = <<>>
  /\ copies' = <<>>
  /\ again' = FALSE
  /\ stamp' = [d \in Docs |-> -1]
  /\ UNCHANGED <<walk, srcText, first>>

\* _clear_target: everything below target_dir is removed, the image
\* directory is made anew.  A run of main starts here.
clear_target ==
  /\ pc \in {"idle", "done", "failed"}
  /\ fs' = [p \in { q \in DOMAIN fs : ~Under(q.dir, target_dir) } |-> fs[p]]
  /\ text' = NoDocs
  /\ pc' = "cleared"
  /\ cur' = "none"
  /\ content' = <<>>
  /\ original_content' = <<>>
  /\ pos' = 0
  /\ processed' = {}
  /\ lookups' = <<>>
  /\ copies' = <<>>
  /\ again' = FALSE
  /\ stamp' = [d \in Docs |-> -1]
  /\ UNCHANGED <<walk, srcText, first>>

\* dst = target_dir / src.relative_to(source_dir)
Mirror(p) ==
  File(target_dir \o SubSeq(p.dir, Len(source_dir) + 1, Len(p.dir)), p.name)

\* _copy_all_recursively: the files and the documents of the post tree.
copy_all_recursively ==
  /\ pc = "cleared"
  /\ LET srcs == { p \in DOMAIN fs : Under(p.dir, source_dir) }
     IN  fs' = [q \in DOMAIN fs \cup { Mirror(p) : p \in srcs } |->
                  IF \E p \in srcs : Mirror(p) = q
                    THEN fs[CHOOSE p \in srcs : Mirror(p) = q]
                    ELSE fs[q]]
  /\ text' = srcText
  /\ pc' = "process"
  /\ UNCHANGED <<walk, srcText, cur, content, original_content, pos,
                 processed, lookups, copies, again, stamp, first>>

\* target_dir.rglob("*.md") yields the documents of a directory before
\* those of its subdirectories.
NextInWalk(d) ==
  /\ d \in DOMAIN text
  /\ d \notin processed
  /\ \A e \in DOMAIN text \ processed :
       (Under(DocDir(d), DocDir(e)) /\ DocDir(e) # DocDir(d)) => FALSE

\* _process_single_markdown up to the first match: the document is read
\* (or the read fails and the document is given up).
begin_markdown(d, readable) ==
  /\ processed' = processed \cup {d}
  /\ IF readable
       THEN /\ cur' = d
            /\ content' = text[d]
            /\ original_content' = text[d]
            /\ pc' = Scan(text[d], "embed", 1).pc
            /\ pos' = Scan(text[d], "embed", 1).pos
       ELSE UNCHANGED <<cur, content, original_content, pc, pos>>
  /\ UNCHANGED <<fs, walk, srcText, text, lookups, copies, stamp, first>>

\* _process_all_markdown_images: the next document of the loop.
process_all_markdown_images ==
  /\ pc = "process"
  /\ \E d \in Docs, readable \in BOOLEAN :
       /\ NextInWalk(d)
       /\ begin_markdown(d, readable)
       /\ again' = FALSE

\* An exception leaves sync; main reports it and the run ends.
Raise ==
  /\ pc' = "failed"
  /\ cur' = "none"
  /\ content' = <<>>
  /\ original_content' = <<>>
  /\ pos' = 0
  /\ UNCHANGED <<fs, walk, srcText, text, processed, copies, again, stamp, first>>

\* The callback returns replacement for the match at pos; re.sub goes on.
Return(replacement, kind) ==
  /\ content' = [content EXCEPT ![pos] = replacement]
  /\ pc' = Scan(content', kind, pos + 1).pc
  /\ pos' = Scan(content', kind, pos + 1).pos
  /\ UNCHANGED <<walk, srcText, text, cur, original_content, processed, again,
                 stamp, first>>

\* copied = self._copy_image_to_image_dir(image_file), then the tag is
\* returned; or the copy raises.
CopyAndReturn(image_file, tag, kind, copy_ok) ==
  IF Copyable(fs, image_file) /\ copy_ok
    THEN /\ fs' = copy_image_to_image_dir(fs, image_file)
         /\ copies' = Append(copies, [src |-> image_file,
                                      dst |-> CopyDst(fs, image_file),
                                      again |-> again])
         /\ Return(tag, kind)
    ELSE /\ Raise

\* repl_obsidian on the match at pos.
repl_obsidian ==
  /\ pc = "embed"
  /\ LET token      == content[pos].ref
         param      == content[pos].param
         image_file == locate_image_by_token(fs, walk, token)
     IN  /\ lookups' = Append(lookups, [token |-> token, found |-> image_file])
         /\ IF image_file = NoFile
              THEN /\ Return(content[pos], "embed")
                   /\ UNCHANGED <<fs, copies>>
              ELSE \E copy_ok \in BOOLEAN :
                     CopyAndReturn(image_file,
                                   EmbedTag(CopyDst(fs, image_file).name, param),
                                   "embed", copy_ok)

\* replace_md_img on the match at pos.
replace_md_img ==
  /\ pc = "md"
  /\ LET raw_path   == content[pos].ref
         image_file == MdSource(fs, walk, cur, raw_path)
     IN  IF IsExternal(raw_path) \/ IsImagePath(raw_path)
           THEN /\ Return(content[pos], "md")
                /\ UNCHANGED <<fs, copies, lookups>>
           ELSE /\ lookups' = IF IsFile(fs, Candidate(cur, raw_path))
                                THEN lookups
                                ELSE Append(lookups,
                                            [token |-> Bare(PathName(raw_path)),
                                             found |-> image_file])
                /\ IF image_file = NoFile
                     THEN /\ Return(content[pos], "md")
                          /\ UNCHANGED <<fs, copies>>
                     ELSE \E copy_ok \in BOOLEAN :
                            CopyAndReturn(image_file,
                                          Img(CopyDst(fs, image_file).name,
                                              <<>>, <<>>),
                                          "md", copy_ok)

\* if content != original_content: md_path.write_text(content), which may fail.
write_markdown ==
  /\ pc = "write"
  /\ \E write_ok \in BOOLEAN :
       /\ text' = IF content # original_content /\ write_ok
                    THEN [text EXCEPT ![cur] = content]
                    ELSE text
       /\ stamp' = [stamp EXCEPT ![cur] =
                      IF content = original_content \/ write_ok
                        THEN Len(copies) ELSE -1]
  /\ pc' = "process"
  /\ cur' = "none"
  /\ content' = <<>>
  /\ original_content' = <<>>
  /\ pos' = 0
  /\ UNCHANGED <<fs, walk, srcText, processed, lookups, copies, again, first>>

\* sync returns once every document was processed.
sync_done ==
  /\ pc = "process"
  /\ processed = DOMAIN text
  /\ pc' = "done"
  /\ UNCHANGED <<fs, walk, srcText, text, cur, content, original_content, pos,
                 processed, lookups, copies, again, stamp, first>>

Next ==
  \/ clear_target
  \/ copy_all_recursively
  \/ process_all_markdown_images
  \/ repl_obsidian
  \/ replace_md_img
  \/ write_markdown
  \/ sync_done

Spec == Init /\ [][Next]_vars

\* _process_single_markdown called once more on a document of the finished
\* run.  stamp[d] is the number of copies made when the call on d returned
\* with the text of d on disk, -1 when the text was not written.
process_single_markdown_again ==
  /\ pc = "done"
  /\ ~again
  /\ \E d \in DOMAIN text :
       /\ begin_markdown(d, TRUE)
       /\ again' = TRUE

NextAgain == Next \/ process_single_markdown_again

SpecAgain == Init /\ [][NextAgain]_vars

(***************************************************************************)
(* Runs of main one after the other over the same post and attachment      *)
(* trees: what the first run left is kept for comparison                   *)
(***************************************************************************)
\* The references whose rewriting reads or writes the file system; the
\* others (external addresses, text, the variants of the size parameter) are
\* rewritten alike whatever the target directory held.
PassItems ==
  { Embed(Bare(<<"logo">>), <<>>),
    Embed(Bare(<<"weird", "name">>), <<>>),
    Embed(Bare(<<"assets">>), <<>>),
    Md(PathText("", <<".">>, logo_jpg)),
    Md(PathText("", <<".", "image">>, logo_jpg)),
    Md(PathText("", <<"image">>, logo_jpg)) }

PassTexts(n) == UNION { [1..k -> PassItems] : k \in 0..n }

InitPasses ==
  /\ \E att \in SUBSET AttFiles : fs = Disk(att \cup {WeirdFile, PostFile})
  /\ walk \in Walks
  /\ \E ta \in PassTexts(MaxRefs) :
       \E tb \in PassTexts(MaxRefs - Len(ta)) :
         srcText = [d \in Docs |-> IF d = "a" THEN ta ELSE tb]
  /\ text = NoDocs
  /\ pc = "idle"
  /\ cur = "none"
  /\ content = <<>>
  /\ original_content = <<>>
  /\ pos = 0
  /\ processed = {}
  /\ lookups = <<>>
  /\ copies = <<>>
  /\ again = FALSE
  /\ stamp = [d \in Docs |-> -1]
  /\ first = NoResult

\* No read, write or copy failed in the pass that is returning: every
\* document was read and its text is on disk.
NoFailure == \A d \in Docs : stamp[d] >= 0

\* What a returning pass leaves: the names in the image directory and the
\* texts of the documents.
Left == [images |-> ImageNames(fs), text |-> text]

\* sync returns; first keeps what the first pass that met no failure left,
\* and whether a later such pass has returned since (passes 1 or 2).
sync_done_noted ==
  /\ pc = "process"
  /\ processed = DOMAIN text
  /\ pc' = "done"
  /\ first' = IF ~NoFailure THEN first
              ELSE IF first = NoResult
                THEN [images |-> Left.images, text |-> Left.text, passes |-> 1]
              ELSE [first EXCEPT !.passes = 2]
  /\ UNCHANGED <<fs, walk, srcText, text, cur, content, original_content, pos,
                 processed, lookups, copies, again, stamp>>

NextPasses ==
  \/ clear_target
  \/ copy_all_recursively
  \/ process_all_markdown_images
  \/ repl_obsidian
  \/ replace_md_img
  \/ write_markdown
  \/ sync_done_noted

SpecPasses == InitPasses /\ [][NextPasses]_vars

(***************************************************************************)
(* _copy_image_to_image_dir on its own: calls on any files, in any order,  *)
(* into an image directory that may already hold files                     *)
(***************************************************************************)
\* The most calls of one run.
MaxCopies == 3

\* The files handed to the calls: three of one name, one without a suffix,
\* one of another name.
CopySources ==
  { File(attachment_dir, logo_png),
    File(attachment_dir \o <<"assets", "sub">>, logo_png),
    File(attachment_dir \o <<"other">>, logo_png),
    File(attachment_dir, <<"logo">>),
    PostFile }

\* The names the image directory may hold before the first call.
HeldNames == { logo_png, <<"logo_1", "png">>, <<"logo_2", "png">>, <<"logo_1">> }

InitCopy ==
  /\ \E held \in SUBSET HeldNames :
       fs = Disk(CopySources \cup { File(image_dir, n) : n \in held })
  /\ walk \in Walks
  /\ srcText = [d \in Docs |-> <<>>]
  /\ text = NoDocs
  /\ pc = "copy"
  /\ cur = "none"
  /\ content = <<>>
  /\ original_content = <<>>
  /\ pos = 0
  /\ processed = {}
  /\ lookups = <<>>
  /\ copies = <<>>
  /\ again = FALSE
  /\ stamp = [d \in Docs |-> -1]
  /\ first = NoResult

\* copied = self._copy_image_to_image_dir(src)
materialize ==
  /\ pc = "copy"
  /\ Len(copies) < MaxCopies
  /\ \E src \in CopySources :
       /\ fs' = copy_image_to_image_dir(fs, src)
       /\ copies' = Append(copies, [src |-> src, dst |-> CopyDst(fs, src),
                                    again |-> FALSE])
  /\ UNCHANGED <<walk, srcText, text, pc, cur, content, original_content, pos,
                 processed, lookups, again, stamp, first>>

SpecCopy == InitCopy /\ [][materialize]_vars

(***************************************************************************)
(* Properties                                                              *)
(***************************************************************************)
\* A document is being processed (between its read and its write-back).
InDocument == pc \in {"embed", "md", "write"}

\* The embed at position j of the document was handed to repl_obsidian.
EmbedDone(j) == (pc = "embed" /\ j < pos) \/ pc \in {"md", "write"}

\* The standard reference at position j was handed to replace_md_img.
MdDone(j) == (pc = "md" /\ j < pos) \/ pc = "write"

\* The file of the image directory an image tag names, NoFile when there is none.
Named(item) == File(image_dir, item.ref.name)

\* C1: within one pass, however many references resolve to a source file F,
\* F is copied under one output name only: any two copies made from the same
\* source file carry the same name (no _1, _2 duplicate of a copied source).
C1_OneCopyPerSource ==
  \A i, j \in DOMAIN copies :
    copies[i].src = copies[j].src => copies[i].dst = copies[j].dst

\* C3: a second application of _process_single_markdown to the text the first
\* one wrote, the image directory being as the first one left it, changes
\* neither the text nor the files of the image directory.
C3_Idempotent ==
  ( /\ again
    /\ InDocument
    /\ stamp[cur] = Cardinality({ i \in DOMAIN copies : ~copies[i].again }) )
  => ( /\ content = original_content
       /\ \A i \in DOMAIN copies : ~copies[i].again )

\* C4: with weirdname.png in the attachment root and nothing named
\* weird.name, the embed ![[weird.name]] is resolved by the dot-stripped
\* candidates: it is rewritten to a tag whose file is a copy of weirdname.png.
C4_DotStripped ==
  \A j \in DOMAIN content :
    ( /\ InDocument
      /\ EmbedDone(j)
      /\ original_content[j].kind = "embed"
      /\ original_content[j].ref = Bare(<<"weird", "name">>)
      /\ IsFile(fs, WeirdFile) )
    => ( /\ content[j].kind = "img"
         /\ IsFile(fs, Named(content[j]))
         /\ fs[Named(content[j])] = WeirdFile )

\* C5: a copy that fails while a reference is rewritten is contained to that
\* reference: the reference stays as it was and the processing of the
\* document, and of the pass, goes on.
C5_CopyFailureContained ==
  [][ (pc \in {"embed", "md"})
      => ( /\ pc' \in {"embed", "md", "write"}
           /\ cur' = cur
           /\ (fs' = fs => content' = content) ) ]_vars

\* No regular file of the attachment tree bears one of the candidate names.
NoAttachment(token) ==
  \A i \in DOMAIN Candidates(token) :
    \A dir \in AttDirs : ~IsFile(fs, File(dir, Candidates(token)[i]))

\* The reference resolves to no file: an embed with no attachment for its
\* token, a standard reference that is not skipped, names no file beside the
\* document and has no attachment for its final component.
Unresolvable(d, item) ==
  \/ item.kind = "embed" /\ NoAttachment(item.ref)
  \/ /\ item.kind = "md"
     /\ item.ref.scheme = ""
     /\ ~(item.ref.dirs # <<>> /\ item.ref.dirs[1] = "image")
     /\ ~IsFile(fs, File(Resolve(target_dir \o DocDir(d), item.ref.dirs),
                         item.ref.name))
     /\ NoAttachment(Bare(item.ref.name))

\* C6: a reference that resolves to no file is left as it is, adds no file to
\* the image directory, and the other references of the document are still
\* processed.
C6_NotFoundLeftAlone ==
  [][ (pc \in {"embed", "md"} /\ Unresolvable(cur, content[pos]))
      => ( /\ content' = content
           /\ fs' = fs
           /\ pc' \in {"embed", "md", "write"}
           /\ cur' = cur ) ]_vars

\* The parameter after its pipe has the exact shape <digits>x<digits>.
ExactDims(param) ==
  /\ param # <<>>
  /\ Head(param) = "|"
  /\ \E i \in DOMAIN Tail(param) :
       /\ Tail(param)[i] = "x"
       /\ IsDigits(SubSeq(Tail(param), 1, i - 1))
       /\ IsDigits(SubSeq(Tail(param), i + 1, Len(Tail(param))))

\* C8: an embed is replaced in its own place only and the attributes of its
\* tag come from its own parameter: width and height with the values of a
\* parameter of the exact shape <digits>x<digits>, no attribute for any
\* other parameter; text outside the references is not altered.
C8_OwnSpanOwnParam ==
  InDocument =>
    /\ Len(content) = Len(original_content)
    /\ \A j \in DOMAIN content :
         /\ original_content[j].kind \in {"text", "img"}
              => content[j] = original_content[j]
         /\ (original_content[j].kind = "embed" /\ content[j].kind = "img")
              => LET param == original_content[j].param
                 IN  IF ExactDims(param)
                       THEN /\ <<"|">> \o content[j].w \o <<"x">> \o content[j].h
                                 = param
                       ELSE /\ content[j].w = <<>>
                            /\ content[j].h = <<>>

\* The last entry of a sequence.
Last(q) == q[Len(q)]

\* The names three files named logo.png get in an empty directory, in call
\* order.
LogoNames == <<logo_png, <<"logo_1", "png">>, <<"logo_2", "png">>>>

\* The calls so far were made into a directory that was empty at first.
FromEmpty == ImageNames(fs) = { copies[i].dst.name : i \in DOMAIN copies }

\* C2: _copy_image_to_image_dir(src) never overwrites or removes a file of
\* the image directory: it adds one file with the content of src, named as
\* src when that name is unused, else stem_k.ext for the smallest k >= 1
\* whose name is unused, and returns that name.  Three distinct files of one
\* name, copied into an empty directory, get stem.ext, stem_1.ext, stem_2.ext
\* in call order.
C2_NeverOverwrites ==
  /\ [][ (copies' # copies)
         => LET e      == Last(copies')
                images == ImageNames(fs)
                n      == e.src.name
            IN  /\ copies' = Append(copies, e)
                /\ \A p \in DOMAIN fs : p \in DOMAIN fs' /\ fs'[p] = fs[p]
                /\ DOMAIN fs' = DOMAIN fs \cup {e.dst}
                /\ e.dst \notin DOMAIN fs
                /\ e.dst.dir = image_dir
                /\ fs'[e.dst] = fs[e.src]
                /\ IF n \notin images
                     THEN e.dst.name = n
                     ELSE \E k \in 1..(Cardinality(images) + 1) :
                            /\ e.dst.name = WithIndex(n, k)
                            /\ \A j \in 1..(k - 1) : WithIndex(n, j) \in images
       ]_vars
  /\ [](\A i \in DOMAIN copies :
          ( /\ FromEmpty
            /\ i <= Len(LogoNames)
            /\ \A j \in 1..i : copies[j].src.name = logo_png
            /\ \A j, k \in 1..i : j # k => copies[j].src # copies[k].src )
          => copies[i].dst.name = LogoNames[i])

\* Three distinct files named logo.png were copied into an empty directory.
C2_Witness ==
  /\ pc = "copy"
  /\ FromEmpty
  /\ Len(copies) = 3
  /\ \A j \in 1..3 : copies[j].src.name = logo_png
  /\ \A j, k \in 1..3 : j # k => copies[j].src # copies[k].src
  /\ ImageNames(fs) = { LogoNames[i] : i \in 1..3 }

\* Some entry of the attachment tree, at any depth, bears the name.
Anywhere(name) == \E dir \in AttDirs : AttExists(fs, dir, name)

\* The position of a directory in the traversal.
WalkIndex(dir) == CHOOSE i \in DOMAIN walk : walk[i] = dir

\* C7: _locate_image_by_token takes the candidates in list order and, for
\* each, looks in the attachment root and then in the whole subtree; the
\* first hit is returned.  The result is the first candidate that exists
\* anywhere, in the root when it is there and else where the traversal meets
\* it first, whatever later candidates lie in the root; not-found is reported
\* only when no candidate exists at any depth.
C7_FirstCandidateWins ==
  \A n \in DOMAIN lookups :
    LET c == Candidates(lookups[n].token)
        r == lookups[n].found
    IN  /\ (r = NoFile) <=> (\A i \in DOMAIN c : ~Anywhere(c[i]))
        /\ (r # NoFile) =>
             \E i \in DOMAIN c :
               /\ r.name = c[i]
               /\ \A k \in 1..(i - 1) : ~Anywhere(c[k])
               /\ r.dir \in AttDirs
               /\ AttExists(fs, r.dir, r.name)
               /\ AttExists(fs, attachment_dir, c[i]) => r.dir = attachment_dir
               /\ \A dir \in AttDirs :
                    AttExists(fs, dir, c[i]) => WalkIndex(r.dir) <= WalkIndex(dir)

\* The token logo was resolved to logo.png two directories down although
\* logo.jpg, a later candidate, lies in the attachment root.
C7_Witness ==
  \E n \in DOMAIN lookups :
    /\ lookups[n].token = Bare(<<"logo">>)
    /\ lookups[n].found = File(attachment_dir \o <<"assets", "sub">>, logo_png)
    /\ IsFile(fs, File(attachment_dir, logo_jpg))

\* The path of a standard reference begins with http://, https://, data: or
\* image/.
Skipped(item) ==
  \/ item.ref.scheme \in {"http://", "https://", "data:"}
  \/ item.ref.scheme = "" /\ item.ref.dirs # <<>> /\ item.ref.dirs[1] = "image"

\* C9: a standard reference whose path begins with http://, https://, data:
\* or image/ is left as it is; no attachment is looked up and no file is
\* added to the image directory for it.
C9_SkippedLeftAlone ==
  [][ (pc = "md" /\ Skipped(content[pos]))
      => ( /\ content' = content
           /\ fs' = fs
           /\ lookups' = lookups
           /\ copies' = copies
           /\ pc' \in {"md", "write"} ) ]_vars

\* A reference to image/logo.jpg was passed over in a.md while the file
\* content/image/logo.jpg exists.
C9_Witness ==
  \E j \in DOMAIN content :
    /\ InDocument
    /\ cur = "a"
    /\ MdDone(j)
    /\ content[j] = Md(PathText("", <<"image">>, logo_jpg))
    /\ IsFile(fs, File(image_dir, logo_jpg))

\* The file a path names when it is read from the directory of document d.
Beside(d, item) ==
  File(Resolve(target_dir \o DocDir(d), item.ref.dirs), item.ref.name)

\* C10: a standard reference that is not skipped is resolved from the
\* directory of its document first; the locator is asked only when no
\* regular file is there, and with the final component of the path only.  The
\* file found is the one copied, and the reference becomes the tag of the
\* copy without size attributes.
C10_DocumentRelativeFirst ==
  [][ (pc = "md" /\ ~Skipped(content[pos]))
      => LET item   == content[pos]
             beside == Beside(cur, item)
         IN  /\ IsFile(fs, beside)
                  => /\ lookups' = lookups
                     /\ pc' # "failed"
                          => /\ copies' # copies
                             /\ Last(copies').src = beside
             /\ ~IsFile(fs, beside)
                  => /\ Len(lookups') = Len(lookups) + 1
                     /\ Last(lookups').token = Bare(item.ref.name)
                     /\ (copies' # copies)
                          => Last(copies').src = Last(lookups').found
                     /\ (copies' = copies /\ pc' # "failed")
                          => content' = content
             /\ (copies' # copies)
                  => /\ copies' = Append(copies, Last(copies'))
                     /\ fs'[Last(copies').dst] = fs[Last(copies').src]
                     /\ content' = [content EXCEPT ![pos] =
                                      Img(Last(copies').dst.name, <<>>, <<>>)]
    ]_vars

\* ![..](./logo.jpg) of a.md was rewritten with the copy of the logo.jpg
\* beside a.md although the attachment root holds a logo.jpg too.
C10_Witness ==
  \E j \in DOMAIN content :
    /\ InDocument
    /\ cur = "a"
    /\ MdDone(j)
    /\ original_content[j] = Md(PathText("", <<".">>, logo_jpg))
    /\ content[j].kind = "img"
    /\ IsFile(fs, File(attachment_dir, logo_jpg))
    /\ IsFile(fs, Named(content[j]))
    /\ fs[Named(content[j])] = PostFile

\* C11: sync empties the image directory before any document is rewritten,
\* so the directory holds only what the pass under way copied; every pass
\* over the same post and attachment trees, in the same traversal order,
\* that returns without a failed read, write or copy leaves the same names
\* in the image directory and the same texts as the first such pass.
C11_PassesAgree ==
  /\ FromEmpty
  /\ pc \in {"cleared", "process"} /\ processed = {} => ImageNames(fs) = {}
  /\ (pc = "done" /\ NoFailure /\ first # NoResult)
       => (Left.images = first.images /\ Left.text = first.text)

\* A second pass has returned: the first left logo.png and logo_1.png and a
\* rewritten a.md, and so did this one.
C11_Witness ==
  /\ pc = "done"
  /\ NoFailure
  /\ first.passes = 2
  /\ Left.images = { logo_png, <<"logo_1", "png">> }
  /\ Left.images = first.images
  /\ text["a"] # srcText["a"]
  /\ text = first.text

\* The files of the image directory and those of the attachment tree.
ImageFiles(f) == { q \in DOMAIN f : q.dir = image_dir }

AttachmentFiles(f) == { q \in DOMAIN f : Under(q.dir, attachment_dir) }

\* Every file of the set is in g as it is in f.
Kept(files, f, g) == \A q \in files : q \in DOMAIN g /\ g[q] = f[q]

\* The tag names a file of the image directory that a copy of this pass
\* made, and the file has the content of the source of that copy.
TagHasFile(item) ==
  /\ IsFile(fs, Named(item))
  /\ \E i \in DOMAIN copies :
       /\ copies[i].dst = Named(item)
       /\ IsFile(fs, copies[i].src)
       /\ fs[Named(item)] = fs[copies[i].src]

\* The tags in the texts on disk and in the text being rewritten.
TagsHaveFiles ==
  /\ \A d \in DOMAIN text : \A j \in DOMAIN text[d] :
       text[d][j].kind = "img" => TagHasFile(text[d][j])
  /\ \A j \in DOMAIN content :
       content[j].kind = "img" => TagHasFile(content[j])

\* The file the reference at pos resolves to.
ResolvedAtPos ==
  IF pc = "embed"
    THEN locate_image_by_token(fs, walk, content[pos].ref)
    ELSE MdSource(fs, walk, cur, content[pos].ref)

\* What one step of a pass does to the image directory and to the
\* attachment tree.
PassStep ==
  /\ fs' # fs
       => /\ AttachmentFiles(fs') = AttachmentFiles(fs)
          /\ Kept(AttachmentFiles(fs), fs, fs')
          /\ pc' # "cleared" => Kept(ImageFiles(fs), fs, fs')
  /\ (pc' # "cleared" /\ copies' # copies)
       => /\ copies' = Append(copies, Last(copies'))
          /\ Last(copies').dst \notin ImageFiles(fs)
          /\ ImageFiles(fs') = ImageFiles(fs) \cup { Last(copies').dst }
          /\ fs'[Last(copies').dst] = fs[Last(copies').src]
  /\ (pc \in {"embed", "md"} /\ pc' # "failed" /\ content' # content)
       => /\ content'[pos].kind = "img"
          /\ copies' # copies
          /\ Last(copies').src = ResolvedAtPos
          /\ Named(content'[pos]) = Last(copies').dst

\* C12: in every state of a pass each <img src="image/N"> tag the rewriter
\* has emitted names a file N of the image directory whose content is that
\* of the source file the reference resolved to; within a pass the files of
\* the image directory only grow, each copy adding exactly one new name and
\* changing no file already there; and no step changes the attachment tree.
C12_ReferentialIntegrity == []TagsHaveFiles /\ [][PassStep]_vars

\* b.md is being rewritten after a.md was written: the tag in a.md names the
\* copy of the image beside a.md, the tag emitted for b.md names another
\* file, the copy of an attachment.
C12_Witness ==
  /\ pc = "write"
  /\ cur = "b"
  /\ Len(text["a"]) = 1
  /\ Len(content) = 1
  /\ text["a"][1].kind = "img"
  /\ content[1].kind = "img"
  /\ Named(text["a"][1]) # Named(content[1])
  /\ TagHasFile(text["a"][1])
  /\ TagHasFile(content[1])
  /\ fs[Named(text["a"][1])] = PostFile
  /\ fs[Named(content[1])] \in AttFiles
  /\ Cardinality(ImageFiles(fs)) = 2

====
